---- MODULE Spec2Model ----
(***************************************************************************)
(* A model of GRBLController (src/grblhal_controller.py): the serial       *)
(* command/response transaction (send_command), the operations built on    *)
(* it (home_axes, set_feed_rate, move_axis, get_status, emergency_stop,    *)
(* reset_controller, connect, disconnect), the status parser               *)
(* (get_current_position) and the scan routine (run_test_routine).         *)
(*                                                                         *)
(* Text is a sequence of one-character strings, so that substring search,  *)
(* strip() and float() are computed character by character.  A Python      *)
(* float is its value in thousandths (an integer); time is counted in      *)
(* ticks of one poll sleep (0.1 s).                                        *)
(***************************************************************************)
EXTENDS Integers, Sequences, FiniteSets, TLC

(***************************************************************************)
(* Python strings                                                          *)
(***************************************************************************)

\* The characters str.strip() removes (the ASCII whitespace).
Whitespace == {" ", "\t", "\n", "\r", "\f"}

UpperCase == <<"A","B","C","D","E","F","G","H","I","J","K","L","M",
               "N","O","P","Q","R","S","T","U","V","W","X","Y","Z">>
LowerCase == <<"a","b","c","d","e","f","g","h","i","j","k","l","m",
               "n","o","p","q","r","s","t","u","v","w","x","y","z">>

LowerChar(c) ==
    IF \E i \in DOMAIN UpperCase : UpperCase[i] = c
    THEN LowerCase[CHOOSE i \in DOMAIN UpperCase : UpperCase[i] = c]
    ELSE c

UpperChar(c) ==
    IF \E i \in DOMAIN LowerCase : LowerCase[i] = c
    THEN UpperCase[CHOOSE i \in DOMAIN LowerCase : LowerCase[i] = c]
    ELSE c

\* str.lower() and str.upper()
lower(s) == [i \in 1..Len(s) |-> LowerChar(s[i])]
upper(s) == [i \in 1..Len(s) |-> UpperChar(s[i])]

\* `p in s` for strings
Contains(s, p) ==
    \E i \in 1..(Len(s) - Len(p) + 1) : SubSeq(s, i, i + Len(p) - 1) = p

\* s.index(p, from): the first position >= from where p occurs, 0 for ValueError
\* (positions are 1-based here, Python's are 0-based)
IndexFrom(s, p, from) ==
    LET hits == {i \in from..(Len(s) - Len(p) + 1) : SubSeq(s, i, i + Len(p) - 1) = p}
    IN  IF hits = {} THEN 0 ELSE CHOOSE i \in hits : \A j \in hits : i <= j

RECURSIVE lstrip(_)
lstrip(s) == IF s # <<>> /\ Head(s) \in Whitespace THEN lstrip(Tail(s)) ELSE s

RECURSIVE rstrip(_)
rstrip(s) ==
    IF s # <<>> /\ s[Len(s)] \in Whitespace
    THEN rstrip(SubSeq(s, 1, Len(s) - 1))
    ELSE s

\* str.strip()
strip(s) == rstrip(lstrip(s))

\* s.endswith(c) for a one-character c
endswith(s, c) == s # <<>> /\ s[Len(s)] = c

\* s.split(sep) for a one-character sep: the fields between the separators
RECURSIVE split(_, _)
split(s, sep) ==
    LET k == IndexFrom(s, <<sep>>, 1)
    IN  IF k = 0 THEN <<s>>
        ELSE <<SubSeq(s, 1, k - 1)>> \o split(SubSeq(s, k + 1, Len(s)), sep)

(***************************************************************************)
(* Python numbers: a float is held as its value in thousandths             *)
(***************************************************************************)

Digit == <<"0","1","2","3","4","5","6","7","8","9">>
IsDigit(c) == \E i \in DOMAIN Digit : Digit[i] = c
DigitVal(c) == (CHOOSE i \in DOMAIN Digit : Digit[i] = c) - 1

\* thousandths per unit, and the number of decimals that gives
Scale == 1000
FracDigits == 3

RECURSIVE NatVal(_)
NatVal(s) == IF s = <<>> THEN 0 ELSE NatVal(SubSeq(s, 1, Len(s) - 1)) * 10 + DigitVal(s[Len(s)])

RECURSIVE NatStr(_)
NatStr(n) == IF n < 10 THEN <<Digit[n + 1]>> ELSE NatStr(n \div 10) \o <<Digit[(n % 10) + 1]>>

\* the decimals of a fraction part, padded on the right to FracDigits
RECURSIVE PadRight(_, _)
PadRight(s, n) == IF Len(s) >= n THEN SubSeq(s, 1, n) ELSE PadRight(s \o <<"0">>, n)

RECURSIVE PadLeft(_, _)
PadLeft(s, n) == IF Len(s) >= n THEN s ELSE PadLeft(<<"0">> \o s, n)

RECURSIVE StripZeros(_)
StripZeros(s) ==
    IF Len(s) > 1 /\ s[Len(s)] = "0" THEN StripZeros(SubSeq(s, 1, Len(s) - 1)) ELSE s

ValueError == [ok |-> FALSE]
Float(m) == [ok |-> TRUE, m |-> m]

\* float(s) for a string: surrounding whitespace is ignored, then an optional sign
\* and a decimal literal with at least one digit; anything else is a ValueError.
\* (Literals with an exponent, "inf" and "nan" are outside the inputs drawn.)
PyFloatOfStr(s) ==
    LET t    == strip(s)
        neg  == t # <<>> /\ Head(t) = "-"
        body == IF t # <<>> /\ Head(t) \in {"-", "+"} THEN Tail(t) ELSE t
        dot  == IndexFrom(body, <<".">>, 1)
        ip   == IF dot = 0 THEN body ELSE SubSeq(body, 1, dot - 1)
        fp   == IF dot = 0 THEN <<>> ELSE SubSeq(body, dot + 1, Len(body))
        good == /\ Len(ip) + Len(fp) > 0
                /\ \A i \in 1..Len(ip) : IsDigit(ip[i])
                /\ \A i \in 1..Len(fp) : IsDigit(fp[i])
        mag  == NatVal(ip) * Scale + NatVal(PadRight(fp, FracDigits))
    IN  IF good THEN Float(IF neg THEN 0 - mag ELSE mag) ELSE ValueError

\* str(x) of a float, as an f-string prints it: the shortest decimal, with at
\* least one decimal ("80.0", "443.33")
PyFloatStr(m) ==
    LET a == IF m < 0 THEN 0 - m ELSE m
    IN  (IF m < 0 THEN <<"-">> ELSE <<>>)
        \o NatStr(a \div Scale) \o <<".">>
        \o StripZeros(PadLeft(NatStr(a % Scale), FracDigits))

\* str(x) of an int
PyIntStr(n) == (IF n < 0 THEN <<"-">> ELSE <<>>) \o NatStr(IF n < 0 THEN 0 - n ELSE n)

\* A Python value that is an int, a float or a str
IntV(n) == [k |-> "int", n |-> n]
FloatV(m) == [k |-> "float", m |-> m]
StrV(s) == [k |-> "str", s |-> s]

\* float(x)
PyFloat(x) ==
    IF x.k = "str" THEN PyFloatOfStr(x.s)
    ELSE IF x.k = "int" THEN Float(x.n * Scale)
    ELSE Float(x.m)

\* f"{x}"
PyStr(x) ==
    IF x.k = "str" THEN x.s
    ELSE IF x.k = "int" THEN PyIntStr(x.n)
    ELSE PyFloatStr(x.m)

(***************************************************************************)
(* Python values returned by the controller's methods                      *)
(***************************************************************************)

None == [k |-> "None"]
BoolV(b) == [k |-> "bool", b |-> b]

\* `if x:` for None, a bool or a str
Truthy(x) ==
    IF x.k = "None" THEN FALSE
    ELSE IF x.k = "bool" THEN x.b
    ELSE x.s # <<>>

(***************************************************************************)
(* The device: what it sends back during one transaction.  A behaviour is  *)
(* a schedule of chunks, each visible to the poll made `at` ticks after    *)
(* the write (a chunk at TxnTicks or later comes after the last poll), and *)
(* an I/O fault of the serial port, if any: write() raises, flush() raises *)
(* after the bytes went out, or in_waiting raises from tick `fat` on.      *)
(***************************************************************************)

\* the transaction deadline in seconds, and the polls per second
TxnTimeout == 3
TicksPerSecond == 10
TxnTicks == TxnTimeout * TicksPerSecond

\* the most chunks in one schedule
MaxChunks == 2

Schedules(Chunks, Times) ==
    UNION { { s \in [1..n -> [at : Times, data : Chunks]] :
                \A i \in 1..(n - 1) : s[i].at <= s[i + 1].at } : n \in 0..MaxChunks }

Behaviours(Chunks, Times, Faults) ==
    { [fault |-> f[1], fat |-> f[2], arr |-> s] : f \in Faults, s \in Schedules(Chunks, Times) }

NoFault == <<"none", 0>>

\* the bytes of the chunks of a schedule, in order
RECURSIVE Bytes(_)
Bytes(arr) == IF arr = <<>> THEN <<>> ELSE Head(arr).data \o Bytes(Tail(arr))

\* the chunks that have reached the input buffer `el` ticks after the write
RECURSIVE Deliver(_, _, _)
Deliver(rx, arr, el) ==
    IF arr # <<>> /\ Head(arr).at <= el
    THEN Deliver(rx \o Head(arr).data, Tail(arr), el)
    ELSE [rx |-> rx, arr |-> arr]

(***************************************************************************)
(* send_command                                                            *)
(***************************************************************************)

\* self.serial_conn and self.serial_conn.is_open
IsOpen(conn) == conn = "open"

\* a guard that forgets is_open: not self.serial_conn
NotConnected_NoIsOpen(conn) == conn = "None"

\* the guard of send_command: not self.serial_conn or not self.serial_conn.is_open
NotConnected(conn) == ~IsOpen(conn)

\* a newline added whether present or not
Normalize_Always(command) == command \o <<"\n">>

\* "Add newline if not present"
Normalize(command) ==
    IF ~endswith(command, "\n") THEN command \o <<"\n">> ELSE command

\* a test that forgets lower()
HasToken_CaseSensitive(response) ==
    \/ Contains(response, <<"o","k">>)
    \/ Contains(response, <<"e","r","r","o","r">>)

\* 'ok' in response.lower() or 'error' in response.lower()
HasToken(response) ==
    \/ Contains(lower(response), <<"o","k">>)
    \/ Contains(lower(response), <<"e","r","r","o","r">>)

\* the locals of send_command after the write: response = "", start_time = now
TxnBegin(rx, b) ==
    [response |-> <<>>, elapsed |-> 0, rx |-> rx, arr |-> b.arr,
     fault |-> b.fault, fat |-> b.fat,
     done |-> FALSE, exit |-> "run", ret |-> None]

\* a loop with no deadline: while True
Expired_Never(t) == FALSE

\* the loop's test has failed: not (time.time() - start_time < 3)
Expired(t) == ~(t.elapsed < TxnTicks)

\* a pass that looks for a token in the bytes just read, not in all of response
PollIter_ScansNewData(t) ==
    IF Expired(t)
    THEN [t EXCEPT !.done = TRUE, !.exit = "deadline", !.ret = StrV(strip(t.response))]
    ELSE LET d == Deliver(t.rx, t.arr, t.elapsed) IN
         IF t.fault = "read" /\ t.elapsed >= t.fat
         THEN [t EXCEPT !.rx = d.rx, !.arr = d.arr,
                        !.done = TRUE, !.exit = "exception", !.ret = None]
         ELSE IF Len(d.rx) > 0
         THEN LET response == t.response \o d.rx IN
              IF HasToken(d.rx)
              THEN [t EXCEPT !.response = response, !.rx = <<>>, !.arr = d.arr,
                             !.done = TRUE, !.exit = "break",
                             !.ret = StrV(strip(response))]
              ELSE [t EXCEPT !.response = response, !.rx = <<>>, !.arr = d.arr,
                             !.elapsed = t.elapsed + 1]
         ELSE [t EXCEPT !.rx = d.rx, !.arr = d.arr, !.elapsed = t.elapsed + 1]

\* One pass of `while time.time() - start_time < 3`: the test of the deadline, the
\* read of what is waiting, the test for a token, the sleep.
PollIter(t) ==
    IF Expired(t)
    THEN [t EXCEPT !.done = TRUE, !.exit = "deadline", !.ret = StrV(strip(t.response))]
    ELSE LET d == Deliver(t.rx, t.arr, t.elapsed) IN
         IF t.fault = "read" /\ t.elapsed >= t.fat
         THEN [t EXCEPT !.rx = d.rx, !.arr = d.arr,
                        !.done = TRUE, !.exit = "exception", !.ret = None]
         ELSE IF Len(d.rx) > 0
         THEN LET response == t.response \o d.rx IN
              IF HasToken(response)
              THEN [t EXCEPT !.response = response, !.rx = <<>>, !.arr = d.arr,
                             !.done = TRUE, !.exit = "break",
                             !.ret = StrV(strip(response))]
              ELSE [t EXCEPT !.response = response, !.rx = <<>>, !.arr = d.arr,
                             !.elapsed = t.elapsed + 1]
         ELSE [t EXCEPT !.rx = d.rx, !.arr = d.arr, !.elapsed = t.elapsed + 1]

\* the loop, run to its end
RECURSIVE RunTxn(_)
RunTxn(t) ==
    IF t.done THEN t ELSE CHOOSE r \in { RunTxn(n) : n \in {PollIter(t)} } : TRUE

\* the input buffer once the call has returned: what was not read, and what the
\* device sent too late to be read
RxAfter(t) == t.rx \o Bytes(t.arr)

\* send_command(command) as one step: the value returned, the command handed to
\* write() (none or one, logged whether or not write() then raised), the input
\* buffer afterwards, how the call ended ("notconnected", "exception", "break" on a
\* token, "deadline") and the time it took.
send_command(conn, command, rx, b) ==
    IF NotConnected(conn)
    THEN [ret |-> None, resp |-> None, written |-> <<>>, rx |-> rx,
          exit |-> "notconnected", elapsed |-> 0]
    ELSE IF b.fault = "write"
    THEN [ret |-> None, resp |-> None, written |-> <<Normalize(command)>>, rx |-> rx,
          exit |-> "exception", elapsed |-> 0]
    ELSE IF b.fault = "flush"
    THEN [ret |-> None, resp |-> None, written |-> <<Normalize(command)>>,
          rx |-> rx \o Bytes(b.arr), exit |-> "exception", elapsed |-> 0]
    ELSE LET t == RunTxn(TxnBegin(rx, b)) IN
         [ret |-> t.ret, resp |-> t.ret, written |-> <<Normalize(command)>>,
          rx |-> RxAfter(t), exit |-> t.exit, elapsed |-> t.elapsed]

(***************************************************************************)
(* The controller's operations, each as what it returns and what it does   *)
(* to the link.  A result holds the value returned (ret), what the call's   *)
(* last send_command returned (resp), the commands written (written), the  *)
(* input buffer afterwards (rx), how that send_command ended (exit) and    *)
(* the time the call took.                                                 *)
(***************************************************************************)

\* the realtime bytes: status query, feed hold, soft reset (Ctrl-X, 0x18, written
\* here as the one character "^X")
StatusQuery == <<"?">>
FeedHold == <<"!">>
SoftReset == <<"^X">>

\* a call that returns before any send_command
NoSend(ret, rx) ==
    [ret |-> ret, resp |-> None, written |-> <<>>, rx |-> rx, exit |-> "nosend",
     elapsed |-> 0]

\* the home command of home_axes, <<>> for "Invalid axes!"
HomeCommand(axes) ==
    LET a == upper(axes) IN
    IF a = <<"Y","Z">> \/ a = <<"Z","Y">> THEN <<"$","H">>
    ELSE IF a = <<"Y">> THEN <<"$","H","Y">>
    ELSE IF a = <<"Z">> THEN <<"$","H","Z">>
    ELSE <<>>

home_axes(conn, axes, rx, b) ==
    LET command == HomeCommand(axes) IN
    IF command = <<>> THEN NoSend(BoolV(FALSE), rx)
    ELSE LET r == send_command(conn, command, rx, b) IN
         [r EXCEPT !.ret = BoolV(TRUE)]

\* a set_feed_rate that clears the stored rate when the conversion fails
set_feed_rate_ClearsOnError(feed, rate) ==
    LET f == PyFloat(rate) IN
    IF f.ok THEN [feed |-> FloatV(f.m), ret |-> BoolV(TRUE)]
    ELSE [feed |-> FloatV(0), ret |-> BoolV(FALSE)]

\* set_feed_rate(rate): the feed rate stored afterwards and the value returned
set_feed_rate(feed, rate) ==
    LET f == PyFloat(rate) IN
    IF f.ok THEN [feed |-> FloatV(f.m), ret |-> BoolV(TRUE)]
    ELSE [feed |-> feed, ret |-> BoolV(FALSE)]

\* a move that attaches the default feed rate, not the stored one
MoveCommand_DefaultFeed(axis, distance, rapid, feed) ==
    IF rapid
    THEN <<"G","0"," ">> \o axis \o PyFloatStr(distance)
    ELSE <<"G","1"," ">> \o axis \o PyFloatStr(distance) \o <<" ","F">> \o PyStr(IntV(1000))

\* the command move_axis builds for a float distance
MoveCommand(axis, distance, rapid, feed) ==
    IF rapid
    THEN <<"G","0"," ">> \o axis \o PyFloatStr(distance)
    ELSE <<"G","1"," ">> \o axis \o PyFloatStr(distance) \o <<" ","F">> \o PyStr(feed)

\* a check that lets X through: axis not in ['X', 'Y', 'Z']
InvalidAxis_AllowsX(axis) == upper(axis) \notin {<<"X">>, <<"Y">>, <<"Z">>}

\* axis not in ['Y', 'Z'], after axis.upper()
InvalidAxis(axis) == upper(axis) \notin {<<"Y">>, <<"Z">>}

move_axis(conn, feed, axis, distance, rapid, rx, b) ==
    IF InvalidAxis(axis) THEN NoSend(BoolV(FALSE), rx)
    ELSE LET d == PyFloat(distance) IN
         IF ~d.ok THEN NoSend(BoolV(FALSE), rx)
         ELSE LET r == send_command(conn, MoveCommand(upper(axis), d.m, rapid, feed), rx, b)
              IN  [r EXCEPT !.ret = BoolV(TRUE)]

get_status(conn, rx, b) == send_command(conn, StatusQuery, rx, b)

\* reset_controller: the soft reset, then time.sleep(1)
reset_controller(conn, rx, b) ==
    LET r == send_command(conn, SoftReset, rx, b)
    IN  [r EXCEPT !.elapsed = r.elapsed + TicksPerSecond]

\* no position: get_current_position returned None
NoPosition == [ok |-> FALSE]

\* a parse that catches ValueError only: the IndexError of a missing value
\* leaves get_current_position as an exception
ParsePosition_IndexErrorEscapes(response) ==
    IF ~(Truthy(response) /\ Contains(response.s, <<"M","P","o","s",":">>))
    THEN NoPosition
    ELSE LET text == response.s
             pos_start == IndexFrom(text, <<"M","P","o","s",":">>, 1) + 5
             pos_end   == IndexFrom(text, <<"|">>, pos_start)
         IN IF pos_end = 0 THEN NoPosition
            ELSE LET positions == split(SubSeq(text, pos_start, pos_end - 1), ",")
                 IN IF Len(positions) < 2 THEN [ok |-> FALSE, raised |-> "IndexError"]
                    ELSE LET y == PyFloatOfStr(positions[2]) IN
                         IF ~y.ok THEN NoPosition
                         ELSE IF Len(positions) < 3
                         THEN [ok |-> FALSE, raised |-> "IndexError"]
                         ELSE LET z == PyFloatOfStr(positions[3]) IN
                              IF ~z.ok THEN NoPosition
                              ELSE [ok |-> TRUE, Y |-> y.m, Z |-> z.m]

\* a parse that takes the 1st value for Y and the 2nd for Z
ParsePosition_FirstIsY(response) ==
    IF ~(Truthy(response) /\ Contains(response.s, <<"M","P","o","s",":">>))
    THEN NoPosition
    ELSE LET text == response.s
             pos_start == IndexFrom(text, <<"M","P","o","s",":">>, 1) + 5
             pos_end   == IndexFrom(text, <<"|">>, pos_start)
         IN IF pos_end = 0 THEN NoPosition
            ELSE LET positions == split(SubSeq(text, pos_start, pos_end - 1), ",")
                     y == PyFloatOfStr(positions[1])
                 IN IF ~y.ok \/ Len(positions) < 2 THEN NoPosition
                    ELSE LET z == PyFloatOfStr(positions[2]) IN
                         IF ~z.ok THEN NoPosition
                         ELSE [ok |-> TRUE, Y |-> y.m, Z |-> z.m]

\* the parse of get_current_position: the MPos field up to the next '|', split at
\* the commas, the 2nd value as Y and the 3rd as Z; None when the marker or the
\* '|' is missing (ValueError), when there are fewer than three values
\* (IndexError) or when a value is not a number (ValueError)
ParsePosition(response) ==
    IF ~(Truthy(response) /\ Contains(response.s, <<"M","P","o","s",":">>))
    THEN NoPosition
    ELSE LET text      == response.s
             pos_start == IndexFrom(text, <<"M","P","o","s",":">>, 1) + 5
             pos_end   == IndexFrom(text, <<"|">>, pos_start)
         IN  IF pos_end = 0 THEN NoPosition
             ELSE LET positions == split(SubSeq(text, pos_start, pos_end - 1), ",")
                  IN  IF Len(positions) < 2 THEN NoPosition
                      ELSE LET y == PyFloatOfStr(positions[2]) IN
                           IF ~y.ok \/ Len(positions) < 3 THEN NoPosition
                           ELSE LET z == PyFloatOfStr(positions[3]) IN
                                IF ~z.ok THEN NoPosition
                                ELSE [ok |-> TRUE, Y |-> y.m, Z |-> z.m]

\* get_current_position: a status query, and the position parsed from its response
get_current_position(conn, rx, b) ==
    LET r == send_command(conn, StatusQuery, rx, b)
    IN  [r EXCEPT !.ret = ParsePosition(r.ret)]

(***************************************************************************)
(* The state                                                               *)
(***************************************************************************)

VARIABLES
    serial_conn,  \* self.serial_conn: "None", or a Serial that is "open" or "closed"
    port,         \* self.port: "None" or the name of a port
    feed_rate,    \* self.feed_rate
    rx,           \* the bytes waiting in the port's input buffer (in_waiting)
    wire,         \* the commands written to the port by the call in progress, or by
                  \* the last call: the arguments of serial_conn.write, oldest first
                  \* (a run of status queries is kept as one entry)
    last,         \* the last call made, or the call in progress: its name and
                  \* arguments, whether the link was open when it began, the value
                  \* it returned, how its last send_command ended
    pc,           \* where the call in progress stands; "idle" between calls
    txn,          \* the locals of a send_command followed poll by poll (which
                  \* then holds the input buffer, in txn.t.rx, until it returns)
    rt            \* the locals of run_test_routine: the time since start_time
                  \* and pos

vars == <<serial_conn, port, feed_rate, rx, wire, last, pc, txn, rt>>

\* the most bytes the input buffer holds
MaxRx == 12

\* the log of writes: a run of status queries is kept as one entry
RECURSIVE Log(_, _)
Log(w, written) ==
    IF written = <<>> THEN w
    ELSE IF w # <<>> /\ w[Len(w)] = Head(written) /\ Head(written) = Normalize(StatusQuery)
    THEN Log(w, Tail(written))
    ELSE Log(Append(w, Head(written)), Tail(written))

Call(op, arg, rapid, open, r) ==
    [op |-> op, arg |-> arg, rapid |-> rapid, open |-> open, ret |-> r.ret,
     resp |-> r.resp, exit |-> r.exit]

\* txn holds the locals of the call (t), its command, and what the device does
\* during the call: the input buffer at the write (rx0) and the schedule (arr0)
NoTxn == [t |-> [TxnBegin(<<>>, [fault |-> "none", fat |-> 0, arr |-> <<>>])
                    EXCEPT !.done = TRUE],
          command |-> <<>>, rx0 |-> <<>>, arr0 |-> <<>>]

NoRoutine == [clock |-> 0, pos |-> NoPosition]

\* A new controller: GRBLController()
Init ==
    /\ serial_conn = "None"
    /\ port = "None"
    /\ feed_rate = IntV(1000)
    /\ rx = <<>>
    /\ wire = <<>>
    /\ last = Call("__init__", <<>>, FALSE, FALSE, NoSend(None, <<>>))
    /\ pc = "idle"
    /\ txn = NoTxn
    /\ rt = NoRoutine

(***************************************************************************)
(* What the callers pass and what the device sends                         *)
(***************************************************************************)

OkLine == <<"o","k","\r","\n">>
ErrorLine == <<"e","r","r","o","r",":","9","\r","\n">>

\* the device's "%.3f"
Fmt3(m) ==
    LET a == IF m < 0 THEN 0 - m ELSE m
    IN  (IF m < 0 THEN <<"-">> ELSE <<>>)
        \o NatStr(a \div Scale) \o <<".">> \o PadLeft(NatStr(a % Scale), FracDigits)

\* a status report <State|MPos:x,y,z|FS:0,0>
Frame(state, x, y, z) ==
    <<"<">> \o state \o <<"|","M","P","o","s",":">>
    \o Fmt3(x) \o <<",">> \o Fmt3(y) \o <<",">> \o Fmt3(z)
    \o <<"|","F","S",":","0",",","0",">","\r","\n">>

Idle == <<"I","d","l","e">>
Run == <<"R","u","n">>

Banner == <<"G","r","b","l","\r","\n">>

At(t, data) == [at |-> t, data |-> data]
Reply(fault, fat, arr) == [fault |-> fault, fat |-> fat, arr |-> arr]
Silent == Reply("none", 0, <<>>)

\* the replies of the device to the calls of the command line: nothing, ok, an
\* error, text without a token, text and then ok, an ok after the deadline, and
\* the faults of the port
ApiBehaviours ==
    { Silent,
      Reply("none", 0, <<At(0, OkLine)>>),
      Reply("none", 0, <<At(0, ErrorLine)>>),
      Reply("none", 0, <<At(0, Banner)>>),
      Reply("none", 0, <<At(0, Banner), At(1, OkLine)>>),
      Reply("none", 0, <<At(TxnTicks, OkLine)>>),
      Reply("write", 0, <<>>),
      Reply("flush", 0, <<At(0, OkLine)>>),
      Reply("read", 1, <<At(0, Banner)>>) }

\* a closed port hears nothing
Replies(conn) == IF IsOpen(conn) THEN ApiBehaviours ELSE {Silent}

RawCommands == { StatusQuery, <<"$","X">>, <<"G","0"," ","Y","1","\n">>, <<"$","$","\n","\n">> }
AxesInputs == { <<"Y","Z">>, <<"z","y">>, <<"Y">>, <<"z">>, <<"X">> }
AxisInputs == { <<"Y">>, <<"z">>, <<"X">> }
RateInputs == { StrV(<<"4","4","3",".","3","3">>), StrV(<<"6","0","0","0">>),
                StrV(<<"f","a","s","t">>), StrV(<<>>), IntV(6000) }
DistanceInputs == { StrV(<<"6","5","0">>), StrV(<<"-","5",".","5">>), StrV(<<"t","e","n">>) }
Ports == {"None", "COM1"}

(***************************************************************************)
(* The calls of the command line (src/main.py), each one step              *)
(***************************************************************************)

\* what a call that ran send_command leaves behind
Sent(op, arg, rapid, r) ==
    /\ Len(r.rx) <= MaxRx
    /\ rx' = r.rx
    /\ wire' = Log(<<>>, r.written)
    /\ last' = Call(op, arg, rapid, IsOpen(serial_conn), r)

SendCommand(command, b) ==
    /\ pc = "idle"
    /\ Sent("send_command", command, FALSE, send_command(serial_conn, command, rx, b))
    /\ UNCHANGED <<serial_conn, port, feed_rate, pc, txn, rt>>

HomeAxes(axes, b) ==
    /\ pc = "idle"
    /\ Sent("home_axes", axes, FALSE, home_axes(serial_conn, axes, rx, b))
    /\ UNCHANGED <<serial_conn, port, feed_rate, pc, txn, rt>>

SetFeedRate(rate) ==
    /\ pc = "idle"
    /\ LET r == set_feed_rate(feed_rate, rate) IN
         /\ feed_rate' = r.feed
         /\ wire' = <<>>
         /\ last' = Call("set_feed_rate", PyStr(rate), FALSE, IsOpen(serial_conn),
                         NoSend(r.ret, rx))
    /\ UNCHANGED <<serial_conn, port, rx, pc, txn, rt>>

MoveAxis(axis, distance, rapid, b) ==
    /\ pc = "idle"
    /\ Sent("move_axis", axis, rapid,
            move_axis(serial_conn, feed_rate, axis, distance, rapid, rx, b))
    /\ UNCHANGED <<serial_conn, port, feed_rate, pc, txn, rt>>

GetStatus(b) ==
    /\ pc = "idle"
    /\ Sent("get_status", <<>>, FALSE, get_status(serial_conn, rx, b))
    /\ UNCHANGED <<serial_conn, port, feed_rate, pc, txn, rt>>

\* emergency_stop, first half: the feed hold
EmergencyStop(b) ==
    /\ pc = "idle"
    /\ LET r == send_command(serial_conn, FeedHold, rx, b) IN
         /\ Len(r.rx) <= MaxRx
         /\ rx' = r.rx
         /\ wire' = Log(<<>>, r.written)
         /\ last' = Call("emergency_stop", <<>>, FALSE, IsOpen(serial_conn), r)
    /\ pc' = "estop"
    /\ UNCHANGED <<serial_conn, port, feed_rate, txn, rt>>

\* an emergency stop that resets only when the feed hold was answered
EmergencyStopReset_IfAnswered(b) ==
    /\ pc = "estop"
    /\ LET r == IF Truthy(last.resp) THEN send_command(serial_conn, SoftReset, rx, b)
                ELSE [NoSend(None, rx) EXCEPT !.exit = last.exit]
       IN
         /\ Len(r.rx) <= MaxRx
         /\ rx' = r.rx
         /\ wire' = Log(wire, r.written)
         /\ last' = [last EXCEPT !.ret = None, !.resp = r.resp, !.exit = r.exit]
    /\ pc' = "idle"
    /\ UNCHANGED <<serial_conn, port, feed_rate, txn, rt>>

\* emergency_stop, second half: time.sleep(0.5) and the soft reset
EmergencyStopReset(b) ==
    /\ pc = "estop"
    /\ LET r == send_command(serial_conn, SoftReset, rx, b) IN
         /\ Len(r.rx) <= MaxRx
         /\ rx' = r.rx
         /\ wire' = Log(wire, r.written)
         /\ last' = [last EXCEPT !.ret = None, !.resp = r.resp, !.exit = r.exit]
    /\ pc' = "idle"
    /\ UNCHANGED <<serial_conn, port, feed_rate, txn, rt>>

ResetController(b) ==
    /\ pc = "idle"
    /\ Sent("reset_controller", <<>>, FALSE, reset_controller(serial_conn, rx, b))
    /\ UNCHANGED <<serial_conn, port, feed_rate, pc, txn, rt>>

\* connect(port): `choice` is the port picked at the prompt when none is set ("None":
\* no ports found, or an invalid selection), `opens` whether serial.Serial() succeeds
Connect(p, choice, opens, b) ==
    /\ pc = "idle"
    /\ LET port1 == IF p # "None" THEN p ELSE port
           port2 == IF port1 = "None" THEN choice ELSE port1
       IN  IF port1 = "None" /\ choice = "None"
           THEN /\ port' = port1
                /\ wire' = <<>>
                /\ last' = Call("connect", <<>>, FALSE, IsOpen(serial_conn),
                                NoSend(BoolV(FALSE), rx))
                /\ UNCHANGED <<serial_conn, rx>>
           ELSE IF ~opens
           THEN /\ port' = port2
                /\ wire' = <<>>
                /\ last' = Call("connect", <<>>, FALSE, IsOpen(serial_conn),
                                [NoSend(BoolV(FALSE), rx) EXCEPT !.exit = "SerialException"])
                /\ UNCHANGED <<serial_conn, rx>>
           ELSE LET r == send_command("open", StatusQuery, <<>>, b) IN
                /\ port' = port2
                /\ serial_conn' = "open"
                /\ Len(r.rx) <= MaxRx
                /\ rx' = r.rx
                /\ wire' = Log(<<>>, r.written)
                /\ last' = Call("connect", <<>>, FALSE, IsOpen(serial_conn),
                                [r EXCEPT !.ret = BoolV(Truthy(r.ret))])
    /\ UNCHANGED <<feed_rate, pc, txn, rt>>

\* a disconnect with no test of the link: it forgets the port every time
Disconnect_NoGuard ==
    /\ pc = "idle"
    /\ serial_conn' = IF serial_conn = "None" THEN "None" ELSE "closed"
    /\ port' = "None"
    /\ rx' = <<>>
    /\ wire' = <<>>
    /\ last' = Call("disconnect", <<>>, FALSE, IsOpen(serial_conn), NoSend(None, rx))
    /\ UNCHANGED <<feed_rate, pc, txn, rt>>

\* disconnect()
Disconnect ==
    /\ pc = "idle"
    /\ IF IsOpen(serial_conn)
       THEN /\ serial_conn' = "closed"
            /\ port' = "None"
            /\ rx' = <<>>
       ELSE UNCHANGED <<serial_conn, port, rx>>
    /\ wire' = <<>>
    /\ last' = Call("disconnect", <<>>, FALSE, IsOpen(serial_conn), NoSend(None, rx))
    /\ UNCHANGED <<feed_rate, pc, txn, rt>>

Next ==
    \/ \E p \in Ports, choice \in Ports, opens \in BOOLEAN, b \in ApiBehaviours :
          Connect(p, choice, opens, b)
    \/ Disconnect
    \/ \E command \in RawCommands, b \in Replies(serial_conn) : SendCommand(command, b)
    \/ \E axes \in AxesInputs, b \in Replies(serial_conn) : HomeAxes(axes, b)
    \/ \E rate \in RateInputs : SetFeedRate(rate)
    \/ \E axis \in AxisInputs, distance \in DistanceInputs, rapid \in BOOLEAN,
          b \in Replies(serial_conn) : MoveAxis(axis, distance, rapid, b)
    \/ \E b \in Replies(serial_conn) : GetStatus(b)
    \/ \E b \in Replies(serial_conn) : EmergencyStop(b)
    \/ \E b \in Replies(serial_conn) : EmergencyStopReset(b)
    \/ \E b \in Replies(serial_conn) : ResetController(b)

Spec == Init /\ [][Next]_vars

(***************************************************************************)
(* send_command followed poll by poll, on a link that connect() opened     *)
(***************************************************************************)

\* after a connect() that returned True
InitOpen ==
    /\ serial_conn = "open"
    /\ port = "COM1"
    /\ feed_rate = IntV(1000)
    /\ rx = <<>>
    /\ wire = << Normalize(StatusQuery) >>
    /\ last = [Call("connect", <<>>, FALSE, FALSE, NoSend(BoolV(TRUE), <<>>))
                  EXCEPT !.resp = StrV(<<"o","k">>), !.exit = "break"]
    /\ pc = "idle"
    /\ txn = NoTxn
    /\ rt = NoRoutine

\* what the device sends, in pieces that split the tokens across reads
TxnChunks == { <<"o">>, <<"K">>, <<"O","k","\r","\n">>, <<"e","r","r">>,
               <<"o","r",":","1">>, <<"E","r","r","o","r">>, <<" ","x">> }

\* at the first poll, at the last poll, after the last poll
TxnTimes == {0, TxnTicks - 1, TxnTicks}

TxnBehaviours ==
    Behaviours(TxnChunks, TxnTimes, {NoFault})
    \cup { Reply("write", 0, <<>>),
           Reply("flush", 0, <<At(0, <<"o">>)>>),
           Reply("read", 0, <<>>),
           Reply("read", TxnTicks - 1, <<At(0, <<" ","x">>)>>) }

TxnCommands == { StatusQuery, <<"$","H">> }

\* the call up to its write: the guard, the newline, write() and flush().  The
\* calls followed here begin on an empty input buffer.
TxnStart(command, b) ==
    /\ pc = "idle"
    /\ rx = <<>>
    /\ IF NotConnected(serial_conn) \/ b.fault \in {"write", "flush"}
       THEN /\ Sent("send_command", command, FALSE,
                    send_command(serial_conn, command, rx, b))
            /\ UNCHANGED <<pc, txn>>
       ELSE /\ wire' = Log(<<>>, <<Normalize(command)>>)
            /\ txn' = [t |-> TxnBegin(rx, b), command |-> command,
                       rx0 |-> rx, arr0 |-> b.arr]
            /\ last' = Call("send_command", command, FALSE, TRUE,
                            [ret |-> None, resp |-> None, exit |-> "run"])
            /\ pc' = "txn"
            /\ UNCHANGED rx
    /\ UNCHANGED <<serial_conn, port, feed_rate, rt>>

\* one pass of the polling loop
TxnPoll ==
    /\ pc = "txn"
    /\ ~txn.t.done
    /\ txn' = [txn EXCEPT !.t = PollIter(txn.t)]
    /\ UNCHANGED <<serial_conn, port, feed_rate, rx, wire, last, pc, rt>>

\* the return
TxnReturn ==
    /\ pc = "txn"
    /\ txn.t.done
    /\ rx' = RxAfter(txn.t)
    /\ last' = Call("send_command", txn.command, FALSE, TRUE,
                    [ret |-> txn.t.ret, resp |-> txn.t.ret, exit |-> txn.t.exit])
    /\ pc' = "idle"
    /\ txn' = NoTxn
    /\ UNCHANGED <<serial_conn, port, feed_rate, wire, rt>>

NextTxn ==
    \/ \E command \in TxnCommands, b \in TxnBehaviours : TxnStart(command, b)
    \/ TxnPoll
    \/ TxnReturn

SpecTxn == InitOpen /\ [][NextTxn]_vars

\* the loop is not held up: a pass that can be made is made
SpecTxnLive == SpecTxn /\ WF_vars(TxnPoll) /\ WF_vars(TxnReturn)

(***************************************************************************)
(* run_test_routine, statement by statement, on a link that connect()      *)
(* opened.  rt.clock is time.time() - start_time in ticks, from the        *)
(* moment start_time is taken (after the home command).                    *)
(***************************************************************************)

\* the constants of run_test_routine, in seconds and mm/min
TIMEOUT == 95
TRAVEL_SPEED == 6000

\* its default arguments
cam_height == FloatV(0)
scan_speed == FloatV(443330)
init_pos == FloatV(80000)
scan_pos == FloatV(650000)

TimeoutTicks == TIMEOUT * TicksPerSecond

\* a routine that scans before it has moved to the approach position
After_ScanFirst(at) ==
    CASE at = "rt_reset"         -> "rt_home"
      [] at = "rt_home"          -> "rt_wait_home"
      [] at = "rt_wait_home"     -> "rt_scan"
      [] at = "rt_scan"          -> "rt_wait_scan"
      [] at = "rt_wait_scan"     -> "rt_approach"
      [] at = "rt_approach"      -> "rt_wait_approach"
      [] at = "rt_wait_approach" -> "rt_return"
      [] at = "rt_return"        -> "rt_wait_return"
      [] at = "rt_wait_return"   -> "rt_done"

\* the order of the routine's statements: what follows each
After(at) ==
    CASE at = "rt_reset"         -> "rt_home"
      [] at = "rt_home"          -> "rt_wait_home"
      [] at = "rt_wait_home"     -> "rt_approach"
      [] at = "rt_approach"      -> "rt_wait_approach"
      [] at = "rt_wait_approach" -> "rt_scan"
      [] at = "rt_scan"          -> "rt_wait_scan"
      [] at = "rt_wait_scan"     -> "rt_return"
      [] at = "rt_return"        -> "rt_wait_return"
      [] at = "rt_wait_return"   -> "rt_done"

MovePcs == {"rt_approach", "rt_scan", "rt_return"}
WaitPcs == {"rt_wait_home", "rt_wait_approach", "rt_wait_scan", "rt_wait_return"}

\* the feed rate set before each move, and the position it moves Y to
MoveFeed(at) == IF at = "rt_scan" THEN scan_speed ELSE IntV(TRAVEL_SPEED)
MoveTarget(at) == IF at = "rt_scan" THEN scan_pos ELSE init_pos

\* the position each wait compares with: pos["Y"] == ... and pos["Z"] == ...
WaitTarget(at) ==
    IF at = "rt_wait_home" THEN [Y |-> 0, Z |-> 0]
    ELSE IF at = "rt_wait_scan" THEN [Y |-> scan_pos.m, Z |-> cam_height.m]
    ELSE [Y |-> init_pos.m, Z |-> cam_height.m]

\* a comparison that takes "no position" for the target
Arrived_OnNone(pos, target) == ~pos.ok \/ (pos.Y = target.Y /\ pos.Z = target.Z)

\* a comparison that forgets Z
Arrived_YOnly(pos, target) == pos.ok /\ pos.Y = target.Y

\* pos is not None and pos["Y"] == y and pos["Z"] == z
Arrived(pos, target) == pos.ok /\ pos.Y = target.Y /\ pos.Z = target.Z

\* the loop test of a wait: time.time() - start_time < TIMEOUT
Waiting(clock) == clock < TimeoutTicks

\* reports that are no status: no MPos field, and a Y value that is no number
NoMPosFrame == <<"<","A","l","a","r","m","|","W","P","o","s",":","1",",","2",",","3",">","\r","\n">>
NotNumericFrame ==
    <<"<","I","d","l","e","|","M","P","o","s",":","0",".","0","0","0",",","a",",",
      "0",".","0","0","0","|","F","S",":","0",",","0",">","\r","\n">>

\* the reports the device sends during the routine, each with its ok
RtChunks ==
    { Frame(Idle, 0, 0, 0) \o OkLine,
      Frame(Idle, 0, init_pos.m, cam_height.m) \o OkLine,
      Frame(Idle, 0, scan_pos.m, cam_height.m) \o OkLine,
      Frame(Run, 0, 12345, cam_height.m) \o OkLine,
      Frame(Run, 0, init_pos.m, 1000) \o OkLine,
      NoMPosFrame \o OkLine,
      NotNumericFrame \o OkLine }

\* the replies during the routine: nothing, a status report and ok, an ok, an
\* error, an ok after the deadline, a fault of the port
RtBehaviours ==
    { Silent,
      Reply("none", 0, <<At(0, OkLine)>>),
      Reply("none", 0, <<At(0, ErrorLine)>>),
      Reply("none", 0, <<At(TxnTicks, OkLine)>>),
      Reply("write", 0, <<>>),
      Reply("read", 0, <<>>) }
    \cup { Reply("none", 0, <<At(0, c)>>) : c \in RtChunks }

\* the guard, "=== Starting Test Routine ==="
RtStart ==
    /\ pc = "idle"
    /\ wire' = <<>>
    /\ IF NotConnected(serial_conn)
       THEN /\ last' = Call("run_test_routine", <<>>, FALSE, FALSE,
                            NoSend(BoolV(FALSE), rx))
            /\ pc' = "idle"
       ELSE /\ last' = Call("run_test_routine", <<>>, FALSE, TRUE,
                            [ret |-> None, resp |-> None, exit |-> "run"])
            /\ pc' = "rt_reset"
    /\ UNCHANGED <<serial_conn, port, feed_rate, rx, txn, rt>>

\* what a statement of the routine that ran send_command leaves behind; the
\* routine drops the values its calls return
RtSent(r) ==
    /\ Len(r.rx) <= MaxRx
    /\ rx' = r.rx
    /\ wire' = Log(wire, r.written)

\* Step 1: self.reset_controller(), time.sleep(2)
RtReset(b) ==
    /\ pc = "rt_reset"
    /\ RtSent(reset_controller(serial_conn, rx, b))
    /\ pc' = After(pc)
    /\ UNCHANGED <<serial_conn, port, feed_rate, last, txn, rt>>

\* self.home_axes(), then start_time = time.time()
RtHome(b) ==
    /\ pc = "rt_home"
    /\ RtSent(home_axes(serial_conn, <<"Y","Z">>, rx, b))
    /\ rt' = [rt EXCEPT !.clock = 0]
    /\ pc' = After(pc)
    /\ UNCHANGED <<serial_conn, port, feed_rate, last, txn>>

\* self.set_feed_rate(...), self.move_axis("Y", ...)
RtMove(b) ==
    /\ pc \in MovePcs
    /\ LET f == set_feed_rate(feed_rate, MoveFeed(pc))
           r == move_axis(serial_conn, f.feed, <<"Y">>, MoveTarget(pc), FALSE, rx, b)
       IN  /\ feed_rate' = f.feed
           /\ RtSent(r)
           /\ rt' = [rt EXCEPT !.clock = rt.clock + r.elapsed]
    /\ pc' = After(pc)
    /\ UNCHANGED <<serial_conn, port, last, txn>>

\* one pass of a wait loop: the test of the deadline, get_current_position(), the
\* comparison with the target, time.sleep(0.1)
RtWait(b) ==
    /\ pc \in WaitPcs
    /\ Waiting(rt.clock)
    /\ LET g == get_current_position(serial_conn, rx, b) IN
         /\ RtSent(g)
         /\ IF Arrived(g.ret, WaitTarget(pc))
            THEN /\ rt' = [clock |-> rt.clock + g.elapsed, pos |-> g.ret]
                 /\ pc' = After(pc)
            ELSE /\ rt' = [clock |-> rt.clock + g.elapsed + 1, pos |-> g.ret]
                 /\ pc' = pc
    /\ UNCHANGED <<serial_conn, port, feed_rate, last, txn>>

\* a routine that gives up when a wait runs out of time: return False
RtWaitExpired_Aborts ==
    /\ pc \in WaitPcs
    /\ ~Waiting(rt.clock)
    /\ last' = [last EXCEPT !.ret = BoolV(FALSE)]
    /\ rt' = NoRoutine
    /\ pc' = "idle"
    /\ UNCHANGED <<serial_conn, port, feed_rate, rx, wire, txn>>

\* the deadline of a wait has passed: the loop is left
RtWaitExpired ==
    /\ pc \in WaitPcs
    /\ ~Waiting(rt.clock)
    /\ pc' = After(pc)
    /\ UNCHANGED <<serial_conn, port, feed_rate, rx, wire, last, txn, rt>>

\* "=== Test Routine Completed Successfully ===", return True
RtReturn ==
    /\ pc = "rt_done"
    /\ last' = [last EXCEPT !.ret = BoolV(TRUE)]
    /\ rt' = NoRoutine
    /\ pc' = "idle"
    /\ UNCHANGED <<serial_conn, port, feed_rate, rx, wire, txn>>

\* the statements of the routine, and disconnect(), with the device's replies
\* drawn from B
RtNext(B) ==
    \/ RtStart
    \/ \E b \in B : RtReset(b)
    \/ \E b \in B : RtHome(b)
    \/ \E b \in B : RtMove(b)
    \/ \E b \in B : RtWait(b)
    \/ RtWaitExpired
    \/ RtReturn
    \/ Disconnect

NextRoutine == RtNext(RtBehaviours)

SpecRoutine == InitOpen /\ [][NextRoutine]_vars

\* the statements of a routine that has started
RoutineStep(B) ==
    \/ \E b \in B : RtReset(b)
    \/ \E b \in B : RtHome(b)
    \/ \E b \in B : RtMove(b)
    \/ \E b \in B : RtWait(b)
    \/ RtWaitExpired
    \/ RtReturn

\* the replies followed to the end of the routine: nothing, text that is no
\* status report, and the status reports at the three targets, none with an ok,
\* so that each call lasts its whole deadline
RtLiveBehaviours ==
    { Silent,
      Reply("none", 0, <<At(0, Banner)>>),
      Reply("none", 0, <<At(0, Frame(Idle, 0, 0, 0))>>),
      Reply("none", 0, <<At(0, Frame(Idle, 0, init_pos.m, cam_height.m))>>),
      Reply("none", 0, <<At(0, Frame(Idle, 0, scan_pos.m, cam_height.m))>>) }

\* the thread that runs the routine is not held up: its next statement is run
SpecRoutineLive ==
    /\ InitOpen
    /\ [][RtNext(RtLiveBehaviours)]_vars
    /\ WF_vars(RoutineStep(RtLiveBehaviours))

(***************************************************************************)
(* The parse of get_current_position, applied to the text send_command     *)
(* returned.  A text is put together from a state label, a field name,     *)
(* the values between the commas and what follows them.                    *)
(***************************************************************************)

\* the most values in a field
MaxValues == 3

ValueTexts == { <<"0",".","0","0","0">>, <<"1","0",".","0","0","0">>,
                <<"5",".","0","0","0">>, <<"-","1",".","5">>, <<"a">>, <<>> }
StateLabels == { Idle, Run, <<"A","l","a","r","m">> }
FieldNames == { <<"M","P","o","s">>, <<"W","P","o","s">> }
\* a field closed by '|', and a field that runs to the end of the report
FieldEnds == { <<"|","F","S",":","0",",","0",">">>, <<">">> }
\* the report alone, and the report with the ok that follows it
ReplyEnds == { <<>>, <<"\r","\n","o","k">> }

RECURSIVE Join(_, _)
Join(values, sep) ==
    IF values = <<>> THEN <<>>
    ELSE IF Len(values) = 1 THEN values[1]
    ELSE values[1] \o sep \o Join(Tail(values), sep)

StatusText(in) ==
    <<"<">> \o in.state \o <<"|">> \o in.field \o <<":">>
    \o Join(in.values, <<",">>) \o in.fend \o in.rend

ValueLists == UNION { [1..n -> ValueTexts] : n \in 0..MaxValues }

\* the texts parsed, each with the parts it was put together from
ParseInputs ==
    { [state |-> st, field |-> f, values |-> v, fend |-> fe, rend |-> re] :
        st \in StateLabels, f \in FieldNames, v \in ValueLists,
        fe \in FieldEnds, re \in ReplyEnds }

\* send_command has returned the text: response = self.send_command("?")
InitParse ==
    /\ serial_conn = "open"
    /\ port = "COM1"
    /\ feed_rate = IntV(1000)
    /\ rx = <<>>
    /\ wire = << Normalize(StatusQuery) >>
    /\ \E in \in ParseInputs :
          last = [op |-> "get_current_position", arg |-> in, rapid |-> FALSE,
                  open |-> TRUE, ret |-> None, resp |-> StrV(StatusText(in)),
                  exit |-> "break"]
    /\ pc = "parse"
    /\ txn = NoTxn
    /\ rt = NoRoutine

\* the rest of get_current_position: the value it returns
ParseStatus ==
    /\ pc = "parse"
    /\ last' = [last EXCEPT !.ret = ParsePosition(last.resp)]
    /\ pc' = "parsed"
    /\ UNCHANGED <<serial_conn, port, feed_rate, rx, wire, txn, rt>>

NextParse == ParseStatus

SpecParse == InitParse /\ [][NextParse]_vars

(***************************************************************************)
(* Properties of the calls of the command line                             *)
(***************************************************************************)

\* the calls that go through send_command
CommandOps == {"send_command", "home_axes", "move_axis", "get_status",
               "emergency_stop", "reset_controller"}

\* the calls that return what send_command returned
ResponseOps == {"send_command", "get_status", "reset_controller"}

\* C1: a command call made while the link is not open (never opened, or closed
\* again) writes nothing to the wire, and send_command (so get_status and
\* reset_controller, which return its value) returns None, the not-connected
\* result.  A command call leaves the link as it found it, so the link seen after
\* the call is the link the call ran on.
C1_NoWriteWhileClosed ==
    (last.op \in CommandOps /\ serial_conn # "open") =>
        /\ wire = <<>>
        /\ last.exit \in {"notconnected", "nosend"}
        /\ last.resp = None
        /\ (last.op \in ResponseOps => last.ret = None)

C1_Witness ==
    /\ last.op = "send_command"
    /\ serial_conn = "closed"
    /\ last.exit = "notconnected"
    /\ last.ret = None

\* the one-byte realtime commands
Realtime == {StatusQuery, FeedHold, SoftReset}
RealtimeOps == {"connect", "get_status", "emergency_stop", "reset_controller"}

\* the number of line terminators at the end of w
RECURSIVE Terminators(_)
Terminators(w) ==
    IF w # <<>> /\ w[Len(w)] = "\n" THEN 1 + Terminators(SubSeq(w, 1, Len(w) - 1)) ELSE 0

\* C4 as claimed: a realtime control is written as its one byte, with no line
\* terminator added, and a line command is written ending in exactly one.
C4_RealtimeUnterminated ==
    \A i \in 1..Len(wire) :
        IF last.op \in RealtimeOps
        THEN wire[i] \in Realtime
        ELSE Terminators(wire[i]) = 1

\* C4, amended: the command kind makes no difference.  Every command written,
\* realtime or line, ends in a line terminator: one is appended to a command that
\* does not end in one, and a command that ends in one is written as it is.
C4_EveryCommandTerminated ==
    \A i \in 1..Len(wire) :
        /\ Terminators(wire[i]) >= 1
        /\ (last.op \in RealtimeOps =>
               \E c \in Realtime : wire[i] = c \o <<"\n">>)
        /\ (last.op \in {"home_axes", "move_axis"} => Terminators(wire[i]) = 1)
        /\ (last.op = "send_command" =>
               IF Terminators(last.arg) = 0
               THEN wire[i] = last.arg \o <<"\n">>
               ELSE wire[i] = last.arg)

C4_Witness ==
    /\ last.op = "get_status"
    /\ wire = << <<"?", "\n">> >>

\* the classification of what a send_command returned: the first token of the text
Classify(resp, exit) ==
    IF exit = "notconnected" THEN "NotConnected"
    ELSE IF resp.k # "str" THEN "IOError"
    ELSE LET l    == lower(resp.s)
             iok  == IndexFrom(l, <<"o","k">>, 1)
             ierr == IndexFrom(l, <<"e","r","r","o","r">>, 1)
         IN  IF iok = 0 /\ ierr = 0 THEN "Timeout"
             ELSE IF ierr = 0 \/ (iok # 0 /\ iok < ierr) THEN "Ok"
             ELSE "Error"

\* C5 as claimed: what home_axes returns for a valid axes argument tells an Ok
\* response from an Error response, a Timeout and a link that is not connected:
\* it returns the success value True only when the transaction was Ok.
C5_HomeReturnsClassification ==
    (last.op = "home_axes" /\ last.exit # "nosend" /\ last.ret = BoolV(TRUE)) =>
        Classify(last.resp, last.exit) = "Ok"

\* the F field of a move command: the text after "F", <<>> when there is none
FField(w) ==
    LET i == IndexFrom(w, <<"F">>, 1)
    IN  IF i = 0 THEN <<>> ELSE SubSeq(w, i + 1, Len(w) - Terminators(w))

\* C6: a feed move (G1) written to the wire carries an F field whose value is the
\* stored feed rate, a rapid move (G0) carries no F field whatever is stored.
C6_FeedOnFeedMovesOnly ==
    (last.op = "move_axis" /\ wire # <<>>) =>
        LET w == wire[1] IN
        IF last.rapid
        THEN SubSeq(w, 1, 2) = <<"G","0">> /\ ~Contains(w, <<"F">>)
        ELSE /\ SubSeq(w, 1, 2) = <<"G","1">>
             /\ PyFloatOfStr(FField(w)) = PyFloat(feed_rate)

C6_Witness ==
    /\ last.op = "move_axis"
    /\ ~last.rapid
    /\ feed_rate = FloatV(443330)
    /\ wire = << <<"G","1"," ","Y","6","5","0",".","0"," ","F","4","4","3",".","3","3","\n">> >>

\* C7: a move whose axis is not Y or Z returns False, writes nothing and leaves
\* the stored feed rate, the link and its input buffer as they were.
C7_InvalidAxisRejected ==
    [][(last'.op = "move_axis" /\ last'.arg \notin {<<"Y">>, <<"y">>, <<"Z">>, <<"z">>}) =>
          /\ last'.ret = BoolV(FALSE)
          /\ wire' = <<>>
          /\ UNCHANGED <<feed_rate, serial_conn, port, rx>>]_vars

C7_Witness ==
    /\ last.op = "move_axis"
    /\ last.arg = <<"X">>
    /\ serial_conn = "open"
    /\ last.ret = BoolV(FALSE)
    /\ wire = <<>>

\* the rates drawn that are not numbers
NotNumeric == {<<"f","a","s","t">>, <<>>}

\* C8: set_feed_rate writes nothing and changes nothing but the stored feed rate;
\* a rate that is not a number is reported (False) and the stored rate is kept,
\* any other rate is stored and reported True.
C8_SetFeedRateLocal ==
    [][last'.op = "set_feed_rate" =>
          /\ wire' = <<>>
          /\ UNCHANGED <<serial_conn, port, rx, pc>>
          /\ IF last'.arg \in NotNumeric
             THEN last'.ret = BoolV(FALSE) /\ feed_rate' = feed_rate
             ELSE last'.ret = BoolV(TRUE) /\ feed_rate' = FloatV(PyFloatOfStr(last'.arg).m)]_vars

C8_Witness ==
    /\ last.op = "set_feed_rate"
    /\ last.arg = <<"f","a","s","t">>
    /\ last.ret = BoolV(FALSE)
    /\ feed_rate = FloatV(443330)

\* C16: disconnect on a link that is closed already, or was never opened,
\* raises nothing, writes nothing and changes nothing of the controller: not the
\* link, not the port, not the feed rate, not the input buffer; and after any
\* disconnect the link is not open, so a second disconnect is such a no-op
C16_CloseIdempotent ==
    [][ last'.op = "disconnect" =>
           /\ serial_conn' # "open"
           /\ wire' = <<>>
           /\ last'.ret = [k |-> "None"]
           /\ serial_conn # "open" => UNCHANGED <<serial_conn, port, feed_rate, rx>> ]_vars

\* disconnect has been called on a link that an earlier disconnect closed, with
\* a port chosen in between by a connect that failed
C16_Witness ==
    /\ last.op = "disconnect"
    /\ ~last.open
    /\ serial_conn = "closed"
    /\ port = "COM1"

(***************************************************************************)
(* Properties of one send_command, followed poll by poll                   *)
(***************************************************************************)

\* the bytes of the chunks of a schedule that come before tick `limit`
RECURSIVE BytesBefore(_, _)
BytesBefore(arr, limit) ==
    IF arr = <<>> THEN <<>>
    ELSE (IF Head(arr).at < limit THEN Head(arr).data ELSE <<>>)
         \o BytesBefore(Tail(arr), limit)

\* what the device has sent in time for a poll made before the deadline, in the
\* order it was sent
Heard == txn.rx0 \o BytesBefore(txn.arr0, TxnTicks)

\* a send_command that polled has come to its return
Returning == pc = "txn" /\ txn.t.done

\* C2: with no fault of the port, the result of a transaction is decided by the
\* first token in what the device sent in time: Ok when "ok" (any case) comes
\* first, Error when "error" comes first, and Timeout, at the deadline, when
\* neither came.  A token ends the call on the spot (break), the lack of one ends
\* it at the deadline, so exactly one of the three results.
C2_ClassifiedByFirstToken ==
    (Returning /\ txn.t.fault = "none") =>
        LET first == Classify(StrV(Heard), "break")
            class == Classify(txn.t.ret, txn.t.exit)
        IN  /\ class = first
            /\ (txn.t.exit = "break") = (first \in {"Ok", "Error"})
            /\ (txn.t.exit = "deadline") = (first = "Timeout")

C2_Witness ==
    /\ Returning
    /\ txn.arr0 = << At(0, <<"e","r","r">>), At(TxnTicks - 1, <<"o","r",":","1">>) >>
    /\ txn.t.exit = "break"
    /\ Classify(txn.t.ret, txn.t.exit) = "Error"

C3_Bounded ==
    pc = "txn" =>
        /\ txn.t.elapsed <= TxnTicks
        /\ (txn.t.done /\ txn.t.exit = "deadline") =>
              /\ txn.t.elapsed = TxnTicks
              /\ txn.t.ret = StrV(strip(Heard))

\* C3: a send_command on an open link returns.  The polling never goes on past
\* the deadline; when the deadline passes with no token the call returns all the
\* text that came in time for a poll (trimmed, possibly empty); and every call
\* that started polling comes to its return, a silent device included.
C3_TimeoutTerminates ==
    /\ []C3_Bounded
    /\ (pc = "txn") ~> (pc = "idle")

C3_Witness ==
    /\ Returning
    /\ txn.t.exit = "deadline"
    /\ txn.arr0 = << At(0, <<" ","x">>), At(TxnTicks, <<"O","k","\r","\n">>) >>
    /\ txn.t.ret = StrV(<<"x">>)


\* "ok" or "error", in any letter case, is in the text
TokenIn(text) ==
    \E i \in 1..Len(text) :
        \/ /\ i + 1 <= Len(text)
           /\ text[i] \in {"o", "O"} /\ text[i + 1] \in {"k", "K"}
        \/ /\ i + 4 <= Len(text)
           /\ text[i] \in {"e", "E"} /\ text[i + 1] \in {"r", "R"}
           /\ text[i + 2] \in {"r", "R"} /\ text[i + 3] \in {"o", "O"}
           /\ text[i + 4] \in {"r", "R"}

\* the tick at which the chunk arrives that completes the first token of what
\* the device sends, whatever the chunks are; -1 when no token is ever complete
RECURSIVE TokenTick(_, _)
TokenTick(sofar, arr) ==
    IF arr = <<>> THEN 0 - 1
    ELSE IF TokenIn(sofar \o Head(arr).data) THEN Head(arr).at
    ELSE TokenTick(sofar \o Head(arr).data, Tail(arr))

\* C17: however the device's bytes are cut into chunks, with no fault of the
\* port the call stops at the poll at which the chunk arrives that completes
\* the first "ok" or "error" (any letter case, split over reads or not), when
\* that is before the deadline, and it returns, trimmed, all the text read up
\* to and including that poll; with no complete token in time it runs to the
\* deadline
C17_TokenFoundAcrossChunks ==
    (Returning /\ txn.t.fault = "none") =>
        LET tick == TokenTick(txn.rx0, txn.arr0) IN
        IF tick >= 0 /\ tick < TxnTicks
        THEN /\ txn.t.exit = "break"
             /\ txn.t.elapsed = tick
             /\ txn.t.ret = [k |-> "str",
                             s |-> strip(txn.rx0 \o BytesBefore(txn.arr0, tick + 1))]
        ELSE txn.t.exit = "deadline"

\* an "oK" whose two letters came in two reads, the second at the last poll
C17_Witness ==
    /\ Returning
    /\ txn.arr0 = << At(0, <<"o">>), At(TxnTicks - 1, <<"K">>) >>
    /\ txn.t.exit = "break"
    /\ txn.t.elapsed = TxnTicks - 1
    /\ txn.t.ret = [k |-> "str", s |-> <<"o","K">>]

(***************************************************************************)
(* Properties of the scan routine                                          *)
(***************************************************************************)

RECURSIVE IsPrefix(_, _)
IsPrefix(s, t) ==
    IF s = <<>> THEN TRUE
    ELSE IF t = <<>> THEN FALSE
    ELSE Head(s) = Head(t) /\ IsPrefix(Tail(s), Tail(t))

IsStatusQuery(c) == c = <<"?", "\n">>

\* the writes of the routine other than its status queries
Commands(w) == SelectSeq(w, LAMBDA c : ~IsStatusQuery(c))

ApproachMove ==
    <<"G","1"," ","Y","8","0",".","0"," ","F","6","0","0","0",".","0","\n">>
ScanMove ==
    <<"G","1"," ","Y","6","5","0",".","0"," ","F","4","4","3",".","3","3","\n">>

\* soft reset, home, move to the approach position, scan, move back
RoutineScript == << <<"^X","\n">>, <<"$","H","\n">>, ApproachMove, ScanMove, ApproachMove >>

InRoutine == pc \in {"rt_reset", "rt_home", "rt_done"} \cup MovePcs \cup WaitPcs

RoutineCompleted ==
    pc = "idle" /\ last.op = "run_test_routine" /\ last.ret = BoolV(TRUE)

\* the number of commands written when the routine stands at a statement
WrittenAt(at) ==
    CASE at = "rt_reset" -> 0
      [] at = "rt_home" -> 1
      [] at \in {"rt_wait_home", "rt_approach"} -> 2
      [] at \in {"rt_wait_approach", "rt_scan"} -> 3
      [] at \in {"rt_wait_scan", "rt_return"} -> 4
      [] at \in {"rt_wait_return", "rt_done"} -> 5

\* C9: the scan routine writes soft reset, home, a feed move of Y to the
\* approach position at the travel feed rate, a feed move of Y to the far
\* position at the scan feed rate and a feed move of Y back to the approach
\* position at the travel feed rate, in this order and nothing else but status
\* queries; the first write after the home command is a status query, so no
\* move precedes the home command or the polling for (0,0); when the routine
\* has completed all five are written and feed_rate is the travel feed rate
C9_FixedOrder ==
    /\ InRoutine =>
          /\ IsPrefix(Commands(wire), RoutineScript)
          /\ Len(Commands(wire)) = WrittenAt(pc)
          /\ Len(wire) >= 3 => IsStatusQuery(wire[3])
    /\ RoutineCompleted =>
          /\ Commands(wire) = RoutineScript
          /\ IsStatusQuery(wire[3])
          /\ feed_rate = [k |-> "float", m |-> 6000000]

\* a routine has completed in which every wait polled the position
C9_Witness ==
    /\ RoutineCompleted
    /\ Len(wire) = 9
    /\ \A i \in {3, 5, 7, 9} : IsStatusQuery(wire[i])

IsMove(c) == Len(c) > 2 /\ SubSeq(c, 1, 2) = <<"G","1">>

\* C10: every wait of the routine has a deadline of its own, so each wait
\* issues at least one status query: no move command is written directly
\* after another move command, with no status query between them
C10_EveryWaitPolls ==
    \A i \in 1..(Len(wire) - 1) : IsMove(wire[i]) => ~IsMove(wire[i + 1])


\* the move commands among the writes
Moves(w) == SelectSeq(w, IsMove)

\* C11: a routine started on an open link comes to its end, return True, with
\* its three move commands written, whatever the device does: answers, errors,
\* silence, late answers, faults of the port, waits that run out of time
C11_RoutineFinishes ==
    InRoutine ~> (RoutineCompleted /\ Len(Moves(wire)) = 3)

\* a routine has completed although the waits after its moves ran out of time
C11_Witness ==
    /\ RoutineCompleted
    /\ wire = << <<"^X","\n">>, <<"$","H","\n">>, <<"?","\n">>,
                 ApproachMove, ScanMove, ApproachMove >>


\* the target of each wait, in thousandths of a millimetre
TargetY(at) ==
    IF at = "rt_wait_home" THEN 0 ELSE IF at = "rt_wait_scan" THEN 650000 ELSE 80000
TargetZ(at) == 0

\* C12: a poll of a wait that reports Y and Z both equal to the target ends the
\* wait there and then, with no further status query of that wait; a poll that
\* reports only one of the two equal to its target leaves the wait going
C12_WaitEndsOnEquality ==
    [][ (pc \in WaitPcs /\ rt.clock < 950 /\ rt'.pos.ok) =>
           LET onY == rt'.pos.Y = TargetY(pc)
               onZ == rt'.pos.Z = TargetZ(pc)
           IN  /\ (onY /\ onZ) => (pc' \notin WaitPcs /\ wire' = Log(wire, <<Normalize(StatusQuery)>>))
               /\ (onY # onZ) => pc' = pc ]_vars

\* the wait after the approach move has ended on a report of (80, 0)
C12_Witness ==
    /\ pc = "rt_scan"
    /\ rt.pos = [ok |-> TRUE, Y |-> 80000, Z |-> 0]
    /\ rt.clock < 950


\* C13: a poll of a wait that yields no status (no reply, no text with MPos, a
\* value that is no number, a fault of the port) leaves the wait going: the
\* routine stays in the same wait, sleeps, and polls again while the deadline
\* allows; nothing ends the routine there
C13_NoStatusKeepsPolling ==
    [][ (pc \in WaitPcs /\ rt.clock < 950 /\ ~rt'.pos.ok) =>
           /\ pc' = pc
           /\ rt'.clock > rt.clock
           /\ wire' = Log(wire, <<Normalize(StatusQuery)>>) ]_vars

\* the wait for (0,0) goes on after a poll without a status
C13_Witness ==
    /\ pc = "rt_wait_home"
    /\ ~rt.pos.ok
    /\ rt.clock \in 1..949
    /\ wire = << <<"^X","\n">>, <<"$","H","\n">>, <<"?","\n">> >>


(***************************************************************************)
(* Properties of the parse of a status text                                *)
(***************************************************************************)

\* what each value text is as a number, in thousandths; -1 where it is none
NumericTexts == { <<"0",".","0","0","0">>, <<"1","0",".","0","0","0">>,
                  <<"5",".","0","0","0">>, <<"-","1",".","5">> }
Thousandths(v) ==
    CASE v = <<"0",".","0","0","0">> -> 0
      [] v = <<"1","0",".","0","0","0">> -> 10000
      [] v = <<"5",".","0","0","0">> -> 5000
      [] v = <<"-","1",".","5">> -> 0 - 1500

\* the text has all that the parse needs: the MPos field, closed by '|', with
\* three values of which the 2nd and the 3rd are numbers
WellFormed(in) ==
    /\ in.field = <<"M","P","o","s">>
    /\ Head(in.fend) = "|"
    /\ Len(in.values) >= 3
    /\ in.values[2] \in NumericTexts
    /\ in.values[3] \in NumericTexts

Parsed == pc = "parsed"

\* C14: a status text without the MPos: marker, or whose field is not closed by
\* '|', or with fewer than three values, or whose 2nd or 3rd value is no number
\* gives no status (None): no exception and no position with one axis only
C14_ParseFailsSilently ==
    (Parsed /\ ~WellFormed(last.arg)) => last.ret = [ok |-> FALSE]

\* a text with two values only has been parsed
C14_Witness ==
    /\ Parsed
    /\ last.arg.field = <<"M","P","o","s">>
    /\ Head(last.arg.fend) = "|"
    /\ last.arg.values = << <<"0",".","0","0","0">>, <<"1","0",".","0","0","0">> >>
    /\ last.ret = [ok |-> FALSE]

\* C15 as claimed: the parse of a well-formed text gives Y, Z and the state
\* label, the text before the first '|'
C15_StatusWithStateLabel ==
    (Parsed /\ WellFormed(last.arg)) =>
        /\ last.ret.ok
        /\ "state" \in DOMAIN last.ret
        /\ last.ret.state = last.arg.state

\* C15: the parse of a well-formed text gives a position and nothing else: Y is
\* the 2nd value of the MPos field and Z the 3rd; the 1st value is skipped, a
\* number or not; no state label is part of the result
C15_PositionFromSecondAndThird ==
    (Parsed /\ WellFormed(last.arg)) =>
        /\ last.ret = [ok |-> TRUE, Y |-> Thousandths(last.arg.values[2]),
                       Z |-> Thousandths(last.arg.values[3])]
        /\ DOMAIN last.ret = {"ok", "Y", "Z"}

\* <Idle|MPos:0.000,10.000,5.000|FS:0,0> has been parsed to Y = 10.0, Z = 5.0
C15_Witness ==
    /\ Parsed
    /\ last.resp = StrV(<<"<","I","d","l","e","|","M","P","o","s",":",
                          "0",".","0","0","0",",","1","0",".","0","0","0",",",
                          "5",".","0","0","0","|","F","S",":","0",",","0",">">>)
    /\ last.ret = [ok |-> TRUE, Y |-> 10000, Z |-> 5000]


(***************************************************************************)
(* Properties of the link over several calls                               *)
(***************************************************************************)

\* C18 as claimed: the text a call returns is made of the device's reply to that
\* call's own command only; what an earlier reply left unread in the input
\* buffer (a late ok after a Timeout) is not read into the text a later call on
\* the same port returns
C18_RepliesAttributed ==
    [][ ( /\ pc = "idle"
          /\ strip(rx) # <<>>
          /\ wire' # <<>>
          /\ last'.op # "connect"
          /\ last'.resp.k = "str" )
        => ~IsPrefix(strip(rx), last'.resp.s) ]_vars


\* C19 as claimed: after a connect that returned False (no port chosen, the
\* port did not open, or the probe got no response) a send_command writes
\* nothing
C19_FailedConnectLeavesClosed ==
    [][ ( /\ pc = "idle"
          /\ last.op = "connect"
          /\ last.ret = [k |-> "bool", b |-> FALSE]
          /\ last'.op = "send_command" )
        => wire' = <<>> ]_vars

\* C20: emergency_stop on an open link writes the feed hold "!" and then the
\* soft reset 0x18, these two and nothing between them; the soft reset follows
\* whatever the feed hold came to: an ok, an error, no answer, a fault of the port
C20_HoldThenReset ==
    /\ [](pc = "estop" /\ last.open => wire = << <<"!","\n">> >>)
    /\ []((pc = "idle" /\ last.op = "emergency_stop" /\ last.open)
            => wire = << <<"!","\n">>, <<"^X","\n">> >>)
    /\ [][ pc = "estop" => pc' = "idle" /\ last'.op = "emergency_stop" ]_vars

\* an emergency stop has ended on an open link
C20_Witness ==
    /\ pc = "idle"
    /\ last.op = "emergency_stop"
    /\ last.open
    /\ wire = << <<"!","\n">>, <<"^X","\n">> >>

====
